---- MODULE Spec2Model ----
(***************************************************************************)
(* Transfer routing of the Metro Bilbao route planner (route_planner.py):  *)
(* the static network tables, the transfer-station resolver                *)
(* RoutePlanner._find_transfer_station and the itinerary builder           *)
(* RoutePlanner._find_transfer_options driven by RoutePlanner.get_route.   *)
(* All durations are integers, in seconds unless a name says minutes.      *)
(***************************************************************************)
EXTENDS Integers, Sequences, FiniteSets, TLC

VARIABLES
    pc,                         \* position of the request being handled
    origin,                     \* origin station code
    destination,                \* destination station code
    station_result,             \* value returned by _find_transfer_station
    prev_call,                  \* the resolver call before this one, as its caller saw it
    route_data,                 \* first upstream response (get_route)
    transfer_station,           \* local of _find_transfer_options
    first_leg_duration_sec,     \* local of _find_transfer_options
    first_train_departure_sec,  \* local of _find_transfer_options
    arrival_at_transfer_sec,    \* local of _find_transfer_options
    estimated_second_leg_sec,   \* second_leg_duration_sec as set at lines 296-298
    transfer_route,             \* outcome of the second upstream query
    transfer_options,           \* list returned by _find_transfer_options
    upstream_calls,             \* number of get_route_info calls issued
    entry,                      \* calling path of the request
    now,                        \* datetime.now() at the latest step, in seconds of the day
    earliest_arrival,           \* route_data["earliestArrival"]
    rendered,                   \* texts returned by format_transfer_info so far
    reqs,                       \* requests in flight at the same time, by request id
    visitor_data,               \* the global visitor_data of main.py
    data_file,                  \* content of visitor_data.json
    current_date,               \* datetime.now().date(), as a day of the month
    tracked,                    \* for each day, the visitor ids track_visitor was called with
    last_track,                 \* the latest track_visitor call, as seen before it ran
    restarts                    \* number of reloads so far

vars == <<pc, origin, destination, station_result, prev_call, route_data,
          transfer_station, first_leg_duration_sec, first_train_departure_sec,
          arrival_at_transfer_sec, estimated_second_leg_sec, transfer_route,
          transfer_options, upstream_calls, entry, now, earliest_arrival,
          rendered, reqs, visitor_data, data_file, current_date, tracked,
          last_track, restarts>>

visitor_vars == <<visitor_data, data_file, current_date, tracked, last_track, restarts>>

-----------------------------------------------------------------------------
(* Python values *)

\* Python's None (also what dict.get returns for an absent key).
None == "None"

\* Sentinel transfer station of _find_transfer_options.
Unknown == "Unknown"

-----------------------------------------------------------------------------
(* Static tables *)

LineOrder == <<"L1", "L2", "L3">>

Lines == {"L1", "L2", "L3"}

METRO_NETWORK ==
    [line \in Lines |->
        CASE line = "L1" ->
               <<"PLE", "SOP", "LAR", "BER", "IBB", "BID", "ALG", "AIB", "NEG",
                 "GOB", "ARE", "LAM", "LEI", "AST", "ERA", "LUT", "SIN", "SAR",
                 "DEU", "SAM", "IND", "MOY", "ABA", "CAD", "BOL", "ETX">>
          [] line = "L2" ->
               <<"KAB", "STZ", "PEN", "POR", "ABT", "SES", "URB", "BAG", "BAR",
                 "ANS", "GUR", "BAS", "ARZ", "ETX", "BOL", "CAD", "ABN", "MOY",
                 "SAM", "IND">>
          [] line = "L3" ->
               <<"MAT", "URI", "ZUR", "TXU", "OTX", "KUK", "BOL", "CAD">>]

TRANSFER_STATIONS ==
    [key \in {"L1-L2", "L1-L3", "L2-L3"} |->
        CASE key = "L1-L2" -> "SIN"
          [] key = "L1-L3" -> "CAD"
          [] key = "L2-L3" -> "CAD"]

\* The two names with a non-ASCII letter (SAM, PEN) are written without it.
STATION_NAMES ==
    [code \in {"PLE", "SOP", "LAR", "BER", "IBB", "BID", "ALG", "AIB", "NEG", "GOB",
               "ARE", "LAM", "LEI", "AST", "ERA", "LUT", "SIN", "SAR", "DEU", "SAM",
               "IND", "MOY", "ABA", "CAD", "BOL", "ETX", "KAB", "STZ", "PEN", "POR",
               "ABT", "SES", "URB", "BAG", "BAR", "ANS", "GUR", "BAS", "ARZ", "MAT",
               "URI", "ZUR", "TXU", "OTX", "KUK"} |->
        CASE code = "PLE" -> "Plentzia"
          [] code = "SOP" -> "Sopela"
          [] code = "LAR" -> "Larrabasterra"
          [] code = "BER" -> "Berango"
          [] code = "IBB" -> "Ibarbengoa"
          [] code = "BID" -> "Bidezabal"
          [] code = "ALG" -> "Algorta"
          [] code = "AIB" -> "Aiboa"
          [] code = "NEG" -> "Neguri"
          [] code = "GOB" -> "Gobela"
          [] code = "ARE" -> "Areeta"
          [] code = "LAM" -> "Lamiako"
          [] code = "LEI" -> "Leioa"
          [] code = "AST" -> "Astrabudua"
          [] code = "ERA" -> "Erandio"
          [] code = "LUT" -> "Lutxana"
          [] code = "SIN" -> "San Inazio"
          [] code = "SAR" -> "Sarriko"
          [] code = "DEU" -> "Deustu"
          [] code = "SAM" -> "Santimami/San Mames"
          [] code = "IND" -> "Indautxu"
          [] code = "MOY" -> "Moyua"
          [] code = "ABA" -> "Abando"
          [] code = "CAD" -> "Zazpikaleak/Casco Viejo"
          [] code = "BOL" -> "Bolueta"
          [] code = "ETX" -> "Etxebarri"
          [] code = "KAB" -> "Kabiezes"
          [] code = "STZ" -> "Santurtzi"
          [] code = "PEN" -> "Penota"
          [] code = "POR" -> "Portugalete"
          [] code = "ABT" -> "Abatxolo"
          [] code = "SES" -> "Sestao"
          [] code = "URB" -> "Urbinaga"
          [] code = "BAG" -> "Bagatza"
          [] code = "BAR" -> "Barakaldo"
          [] code = "ANS" -> "Ansio"
          [] code = "GUR" -> "Gurutzeta/Cruces"
          [] code = "BAS" -> "Basauri"
          [] code = "ARZ" -> "Ariz"
          [] code = "MAT" -> "Matiko"
          [] code = "URI" -> "Uribarri"
          [] code = "ZUR" -> "Zurbaranbarri"
          [] code = "TXU" -> "Txurdinaga"
          [] code = "OTX" -> "Otxarkoaga"
          [] code = "KUK" -> "Kukullaga"]

\* `station in stations` for a line's station list.
StationsOf(line) == {METRO_NETWORK[line][i] : i \in 1..Len(METRO_NETWORK[line])}

-----------------------------------------------------------------------------
(* RoutePlanner._find_transfer_station *)

\* The loop of lines 173-177 for one of the two stations: every line is
\* visited in dictionary order and each match overwrites the previous one.
RECURSIVE ScanLines(_, _, _)
ScanLines(station, i, line) ==
    IF i > Len(LineOrder) THEN line
    ELSE ScanLines(station, i + 1,
                   IF station \in StationsOf(LineOrder[i]) THEN LineOrder[i] ELSE line)

LineOfStation(station) == ScanLines(station, 1, None)

\* A resolver that answers CAD for every pair of different lines.
FindTransferStationAlwaysCAD(o, d) ==
    LET origin_line == LineOfStation(o)
        destination_line == LineOfStation(d)
    IN  IF origin_line = None \/ destination_line = None
           \/ origin_line = destination_line
        THEN None
        ELSE "CAD"

_find_transfer_station(o, d) ==
    LET origin_line == LineOfStation(o)
        destination_line == LineOfStation(d)
        lines == {origin_line, destination_line}
    IN  IF origin_line = None \/ destination_line = None
           \/ origin_line = destination_line
        THEN None
        ELSE IF lines = {"L1", "L2"} THEN "SIN"
        ELSE IF "L3" \in lines THEN "CAD"
        ELSE None

-----------------------------------------------------------------------------
(* Inputs *)

\* Longest train list of a second-leg response.
MaxTrains == 3

\* A station code that is in no table.
UnknownCode == "XXX"

\* Every station code of METRO_NETWORK, and one unknown code.
StationCodes == UNION {StationsOf(line) : line \in Lines} \cup {UnknownCode}

\* A train entry is its "estimated" value in minutes; NoEst is an entry
\* without the key, BadEst an entry whose value is null.
NoEst == -1

BadEst == -2

\* trip.duration of a response that has no "duration" key.
NoDur == -1

Estimated(train, default) == IF train = NoEst THEN default ELSE train

Max(a, b) == IF a >= b THEN a ELSE b

\* Minimum transfer wait in seconds (time to walk between platforms).
FLOOR == 30

RequestPairs == {<<"PLE", "KAB">>, <<"PLE", "MAT">>, <<UnknownCode, "PLE">>}

FirstTrainLists == {<<>>, <<3>>, <<0, 8>>}

\* A first response: the trip descriptor's transfer flag, duration in
\* minutes and transferStation hint, the estimates of the listed trains, and
\* the display names the descriptor embeds (None where it embeds none):
\* fromStation.name, toStation.name and a name for the transfer station.
FirstResponses ==
    [kind : {"ok"},
     transfer : BOOLEAN,
     duration : {0, 11, 20},
     transferStation : {None, "", Unknown, "CAD"},
     trains : FirstTrainLists,
     line : {"L1"},
     secondLine : {None},
     fromName : {"Origin (API)"},
     toName : {"Destination (API)"},
     transferName : {None}]

\* Value of fromName for a trip that has no "fromStation" object at all
\* (None: the object is there and has no "name").
NoStation == "<no fromStation>"

\* First responses with fewer timings and every combination of embedded
\* names and second-line label.
PathFirstResponses ==
    [kind : {"ok"},
     transfer : BOOLEAN,
     duration : {11, 20},
     transferStation : {None, "CAD"},
     trains : FirstTrainLists,
     line : {"L1"},
     secondLine : {None, "L2"},
     fromName : {None, "Plentzia (API)", NoStation},
     toName : {None, "Destination (API)"},
     transferName : {None, "Interchange (API)"}]

TrainValues == {NoEst, BadEst, 0, 5, 9, 14}

TrainLists == UNION {[1..n -> TrainValues] : n \in 0..MaxTrains}

SecondResponses ==
    [kind : {"ok"}, trains : TrainLists, hasTrip : {TRUE}, duration : {NoDur, 11}]
    \cup [kind : {"ok"}, trains : TrainLists, hasTrip : {FALSE}, duration : {NoDur}]

\* A few second responses: no train, the trains of the worked example, one
\* train that leaves at once, and a payload without trip.
PathSecondResponses ==
    [kind : {"ok"}, trains : {<<>>, <<5, 9, 14>>, <<0>>}, hasTrip : {TRUE},
     duration : {11}]
    \cup [kind : {"ok"}, trains : {<<14>>}, hasTrip : {FALSE}, duration : {NoDur}]

FailureKinds == {"timeout", "http_error", "bad_json"}

\* Calling paths: RoutePlanner.get_route, the /api/process handler, and a
\* call of _find_transfer_options itself.
Entries == {"get_route", "process", "direct"}

\* Times of day of a request: noon, and one minute before midnight.
Clocks == {12 * 3600, 24 * 3600 - 60}

\* Seconds an upstream query takes before the handler resumes (the client
\* gives up after 30).
Delays == {0, 20}

\* Largest total trip duration, in minutes, of the responses that sweep it.
MaxDuration == 7

\* First responses with every total trip duration from 0 to MaxDuration.
SplitFirstResponses ==
    [kind : {"ok"},
     transfer : BOOLEAN,
     duration : 0..MaxDuration,
     transferStation : {None},
     trains : FirstTrainLists,
     line : {"L1"},
     secondLine : {None},
     fromName : {None, "Plentzia (API)"},
     toName : {"Destination (API)"},
     transferName : {None}]

\* Number of times one result is rendered.
MaxRenders == 2

NoResponse == [kind |-> "none", trains |-> <<>>, hasTrip |-> FALSE, duration |-> NoDur]

NoRouteData ==
    [kind |-> "none", transfer |-> FALSE, duration |-> 0,
     transferStation |-> None, trains |-> <<>>,
     line |-> "L1", secondLine |-> None,
     fromName |-> None, toName |-> None, transferName |-> None]

NoCall == [kind |-> "none", result |-> None]

-----------------------------------------------------------------------------
(* Formatting helpers of RoutePlanner *)

SecondsPerDay == 86400

\* The time of day `seconds` after `clock`.
ClockAfter(clock, seconds) == (clock + seconds) % SecondsPerDay

\* Python's f"{n:02d}" for n >= 0.
Pad2(n) == IF n < 10 THEN "0" \o ToString(n) ELSE ToString(n)

\* RoutePlanner._format_time: MM:SS.
_format_time(total_seconds) ==
    Pad2(total_seconds \div 60) \o ":" \o Pad2(total_seconds % 60)

\* RoutePlanner._format_duration.
_format_duration(total_seconds) ==
    IF total_seconds % 60 > 0
    THEN ToString(total_seconds \div 60) \o " min "
         \o ToString(total_seconds % 60) \o " sec"
    ELSE ToString(total_seconds \div 60) \o " minutes"

\* strftime("%H:%M:%S") of the time of day `clock` seconds after midnight.
StrfTime(clock) ==
    Pad2(clock \div 3600) \o ":" \o Pad2((clock % 3600) \div 60)
    \o ":" \o Pad2(clock % 60)

\* strftime("%H:%M:%S")[:5].
StrfTimeHHMM(clock) == Pad2(clock \div 3600) \o ":" \o Pad2((clock % 3600) \div 60)

\* RoutePlanner._calculate_arrival_time, with datetime.now() = clock_now.
_calculate_arrival_time(clock_now, departure_seconds) ==
    StrfTime((clock_now + departure_seconds) % SecondsPerDay)

\* STATION_NAMES.get(code, code).
StationNameOrCode(code) ==
    IF code \in DOMAIN STATION_NAMES THEN STATION_NAMES[code] ELSE code

-----------------------------------------------------------------------------
(* RoutePlanner._find_transfer_options: before the second upstream query *)

\* Python truthiness of a station code: None and "" are false.
Truthy(code) == code # None /\ code # ""

\* A resolution order that asks the resolver first and uses the hint last.
TransferStationOfResolverFirst(rd, o, d) ==
    LET found == _find_transfer_station(o, d)
        hint == rd.transferStation
    IN  IF Truthy(found) THEN found
        ELSE IF Truthy(hint) THEN hint ELSE Unknown

\* Lines 269-277.
TransferStationOf(rd, o, d) ==
    LET hint == rd.transferStation
        resolved == IF ~Truthy(hint) \/ hint = Unknown
                    THEN _find_transfer_station(o, d)
                    ELSE hint
    IN  IF ~Truthy(resolved) THEN Unknown ELSE resolved

\* Line 280.
FirstLegDurationSec(rd) == (rd.duration \div 2) * 60

\* A departure offset that ignores the first train.
FirstTrainDepartureSecZero(rd) == 0

\* Lines 283-285.
FirstTrainDepartureSec(rd) ==
    IF rd.trains # <<>> THEN Estimated(rd.trains[1], 0) * 60 ELSE 0

\* A remainder that repeats the truncated half.
EstimatedSecondLegSecHalf(rd) == (rd.duration \div 2) * 60

\* Lines 296-298.
EstimatedSecondLegSec(rd) == (rd.duration - (FirstLegDurationSec(rd) \div 60)) * 60

-----------------------------------------------------------------------------
(* RoutePlanner._find_transfer_options: the second-leg enrichment *)

\* The for loop of lines 309-318: the index of the train it breaks at, or
\* that it ran to its end, or that an entry raised.
RECURSIVE ScanTrains(_, _, _)
ScanTrains(trains, i, arrival) ==
    IF i > Len(trains) THEN [outcome |-> "exhausted", index |-> 0]
    ELSE IF trains[i] = BadEst THEN [outcome |-> "raised", index |-> i]
    ELSE IF Estimated(trains[i], 0) * 60 >= arrival
         THEN [outcome |-> "found", index |-> i]
    ELSE ScanTrains(trains, i + 1, arrival)

\* A scan that keeps the last qualifying train instead of the first.
RECURSIVE ScanTrainsLast(_, _, _, _)
ScanTrainsLast(trains, i, arrival, best) ==
    IF i > Len(trains) THEN best
    ELSE IF trains[i] = BadEst THEN [outcome |-> "raised", index |-> i]
    ELSE IF Estimated(trains[i], 0) * 60 >= arrival
         THEN ScanTrainsLast(trains, i + 1, arrival, [outcome |-> "found", index |-> i])
    ELSE ScanTrainsLast(trains, i + 1, arrival, best)

SelectTrainLast(trains, arrival) ==
    ScanTrainsLast(trains, 1, arrival, [outcome |-> "exhausted", index |-> 0])

SelectTrain(trains, arrival) == ScanTrains(trains, 1, arrival)

\* A wait taken from the schedule without the 30-second minimum.
LiveWaitSecNoFloor(trains, scan, arrival) ==
    IF scan.outcome = "found"
    THEN Estimated(trains[scan.index], 0) * 60 - arrival
    ELSE Estimated(trains[1], 5) * 60

\* Lines 315-317 and 322-324: the wait assigned by the loop or by its else.
LiveWaitSec(trains, scan, arrival) ==
    IF scan.outcome = "found"
    THEN Max(FLOOR, Estimated(trains[scan.index], 0) * 60 - arrival)
    ELSE Max(FLOOR, Estimated(trains[1], 5) * 60)

\* Lines 327-329.
LiveSecondLegSec(resp, est_sec) ==
    (IF resp.duration = NoDur THEN est_sec \div 60 ELSE resp.duration) * 60

\* The body of the try (lines 306-329) on a response that get_route_info
\* returned: the two locals as they stand when the body ends or raises.
TryBody(resp, arrival, est_sec) ==
    IF resp.trains = <<>>
    THEN [raised |-> FALSE, wait |-> FLOOR, dur |-> est_sec]
    ELSE LET scan == SelectTrain(resp.trains, arrival)
         IN  IF scan.outcome = "raised"
             THEN [raised |-> TRUE, wait |-> FLOOR, dur |-> est_sec]
             ELSE IF ~resp.hasTrip
             THEN [raised |-> TRUE,
                   wait |-> LiveWaitSec(resp.trains, scan, arrival),
                   dur |-> est_sec]
             ELSE [raised |-> FALSE,
                   wait |-> LiveWaitSec(resp.trains, scan, arrival),
                   dur |-> LiveSecondLegSec(resp, est_sec)]

\* An except clause that leaves the wait as the try left it.
ExceptKeepsWait(r) == r

\* The except clause (lines 330-333).
ExceptHandler(r) == IF r.raised THEN [r EXCEPT !.wait = FLOOR] ELSE r

\* Lines 295-333 for every outcome of the second query.
Enrichment(resp, arrival, est_sec) ==
    IF resp.kind = "ok"
    THEN ExceptHandler(TryBody(resp, arrival, est_sec))
    ELSE ExceptHandler([raised |-> TRUE, wait |-> FLOOR, dur |-> est_sec])

\* A total that leaves the transfer wait out.
TotalTimeSecNoWait(first, wait, second) == first + second

\* Line 335.
TotalTimeSec(first, wait, second) == first + wait + second

\* Line 338.
TransferStationName(rd, ts) == StationNameOrCode(ts)

\* Lines 339-341.
OriginName(rd, o) == IF rd.fromName # None THEN rd.fromName ELSE StationNameOrCode(o)

\* Lines 342-344.
DestinationName(rd, d) == IF rd.toName # None THEN rd.toName ELSE StationNameOrCode(d)

\* Line 291.
SecondLine(rd) == IF rd.secondLine # None THEN rd.secondLine ELSE rd.line

\* route_data["trip"]["fromStation"] raises KeyError (line 339).
NameLookupRaises(rd) == rd.fromName = NoStation

\* Lines 346-384.
Option(o, d, rd, clock_now, ts, first, dep, arrival, e) ==
    [description |-> "Transfer at " \o TransferStationName(rd, ts),
     firstLeg |-> [from |-> o,
                   fromName |-> OriginName(rd, o),
                   to |-> ts,
                   toName |-> TransferStationName(rd, ts),
                   line |-> rd.line,
                   duration |-> first,
                   durationFormatted |-> _format_duration(first),
                   departure |-> dep,
                   departureFormatted |-> _format_time(dep),
                   departureTime |-> _calculate_arrival_time(clock_now, dep),
                   arrival |-> arrival,
                   arrivalFormatted |-> _format_time(arrival),
                   arrivalTime |-> _calculate_arrival_time(clock_now, arrival)],
     transferWait |-> e.wait,
     transferWaitFormatted |-> _format_duration(e.wait),
     secondLeg |-> [from |-> ts,
                    fromName |-> TransferStationName(rd, ts),
                    to |-> d,
                    toName |-> DestinationName(rd, d),
                    line |-> SecondLine(rd),
                    duration |-> e.dur,
                    durationFormatted |-> _format_duration(e.dur),
                    departure |-> arrival + e.wait,
                    departureFormatted |-> _format_time(arrival + e.wait),
                    departureTime |-> _calculate_arrival_time(clock_now, arrival + e.wait)],
     totalDuration |-> TotalTimeSec(first, e.wait, e.dur),
     totalDurationFormatted |-> _format_duration(TotalTimeSec(first, e.wait, e.dur)),
     expectedArrival |->
         _calculate_arrival_time(clock_now, TotalTimeSec(first, e.wait, e.dur))]

-----------------------------------------------------------------------------
(* The daily visitor counter of main.py *)

\* Last day of the month the clock reaches.
MaxDay == 3

Days == 1..MaxDay

\* Number of reloads of the counter that are followed.
MaxRestarts == 2

\* f"{client_ip}:{user_agent}" of two clients (lines 133-135).
VisitorIds == {"10.0.0.1:curl", "unknown:"}

\* date.isoformat() of day d of October 2026.
DateIso(d) == "2026-10-" \o Pad2(d)

\* datetime.fromisoformat(text).date().
DateFromIso(text) == CHOOSE d \in 1..31 : DateIso(d) = text

\* list(visitors): the ids in any order, each once.
ListsOf(visitors) ==
    {seq \in UNION {[1..n -> visitors] : n \in {Cardinality(visitors)}} :
        {seq[i] : i \in DOMAIN seq} = visitors}

\* set(list).
SetOf(list) == {list[i] : i \in DOMAIN list}

\* The keys of visitor_data and of the JSON object in visitor_data.json.
AllKeys == {"date", "visitors", "count"}

\* visitor_data.json does not exist.
NoFile ==
    [exists |-> FALSE, json |-> FALSE, keys |-> {}, date |-> "",
     visitors |-> <<>>, count |-> 0]

\* A file whose writing was cut short: open(DATA_FILE, "w") emptied it and
\* json.dump did not finish.  No prefix of the object is JSON.
TruncatedFile ==
    [exists |-> TRUE, json |-> FALSE, keys |-> {}, date |-> "",
     visitors |-> <<>>, count |-> 0]

\* Files that did not come from save_visitor_data: JSON objects without
\* some of the keys, with a date that is no ISO date, and with a count that
\* is not the length of the list.
ForeignFiles ==
    {[exists |-> TRUE, json |-> TRUE, keys |-> {}, date |-> "",
      visitors |-> <<>>, count |-> 0],
     [exists |-> TRUE, json |-> TRUE, keys |-> {"date", "count"},
      date |-> "2026-10-01", visitors |-> <<>>, count |-> 1],
     [exists |-> TRUE, json |-> TRUE, keys |-> {"visitors", "count"},
      date |-> "", visitors |-> <<"unknown:">>, count |-> 1],
     [exists |-> TRUE, json |-> TRUE, keys |-> {"date", "visitors"},
      date |-> "2026-10-01", visitors |-> <<"unknown:">>, count |-> 0],
     [exists |-> TRUE, json |-> TRUE, keys |-> AllKeys,
      date |-> "yesterday", visitors |-> <<"unknown:">>, count |-> 1],
     [exists |-> TRUE, json |-> TRUE, keys |-> AllKeys,
      date |-> "2026-10-01", visitors |-> <<"unknown:">>, count |-> 2]}

\* The contents save_visitor_data writes for `data` when it succeeds
\* (lines 53-59).
SavedFiles(data) ==
    {[exists |-> TRUE, json |-> TRUE, keys |-> AllKeys, date |-> DateIso(data.date),
      visitors |-> list, count |-> data.count] : list \in ListsOf(data.visitors)}

\* The file after save_visitor_data() (lines 50-61).  Every exception is
\* caught and printed: a missing key of visitor_data raises before the file
\* is opened; otherwise the save succeeds, or open() fails and the file is
\* as it was, or the write fails after open() has emptied the file.
SaveOutcomes(data, file) ==
    IF data.keys # AllKeys THEN {file}
    ELSE SavedFiles(data) \cup {file, TruncatedFile}

\* datetime.fromisoformat accepts the text.
IsIsoDate(text) == \E d \in 1..31 : DateIso(d) = text

\* Line 47 (and line 102).
DefaultVisitorData(today) ==
    [keys |-> AllKeys, date |-> today, visitors |-> {}, count |-> 0]

\* load_visitor_data (lines 30-47).  A key the file lacks is not converted
\* and is absent from the result (shown here with a 0 or an empty set); text
\* that is no JSON, or a date that is no ISO date, gives the default.
load_visitor_data(file, today) ==
    IF ~file.exists \/ ~file.json THEN DefaultVisitorData(today)
    ELSE IF "date" \in file.keys /\ ~IsIsoDate(file.date)
    THEN DefaultVisitorData(today)
    ELSE [keys |-> file.keys,
          date |-> IF "date" \in file.keys THEN DateFromIso(file.date) ELSE 0,
          visitors |-> IF "visitors" \in file.keys THEN SetOf(file.visitors) ELSE {},
          count |-> IF "count" \in file.keys THEN file.count ELSE 0]

\* The lifespan's startup got past line 70, which reads visitor_data["count"]
\* and visitor_data["date"]: without them it raises KeyError and the
\* application does not start.
Serving(data) == {"date", "count"} \subseteq data.keys

\* Line 127.
ResetVisitors(visitors) == {}

\* Lines 122-130: visitor_data after the daily reset, if it is due.
AfterReset(data, today) ==
    IF data.date # today
    THEN [keys |-> AllKeys, date |-> today,
          visitors |-> ResetVisitors(data.visitors), count |-> 0]
    ELSE data

\* Lines 137-140: visitor_data after the id has been looked up and added.
AfterVisit(data, id) ==
    IF id \notin data.visitors
    THEN [data EXCEPT !.visitors = data.visitors \cup {id},
                      !.count = Cardinality(data.visitors \cup {id})]
    ELSE data

NoTrack ==
    [kind |-> "none", id |-> None, repeat |-> FALSE, new_date |-> FALSE,
     count_before |-> 0]

\* Module import with no file yet (line 102 and lines 66-69).
InitVisitors ==
    /\ visitor_data = DefaultVisitorData(1)
    /\ data_file = NoFile
    /\ current_date = 1
    /\ tracked = [d \in Days |-> {}]
    /\ last_track = NoTrack
    /\ restarts = 0

-----------------------------------------------------------------------------
(* RoutePlanner.format_transfer_info *)

RECURSIVE JoinLines(_)
\* "\n".join(lines)
JoinLines(lines) ==
    IF lines = <<>> THEN ""
    ELSE IF Len(lines) = 1 THEN lines[1]
    ELSE lines[1] \o "\n" \o JoinLines(Tail(lines))

\* Lines 424-457 for option number i (the pictographs and arrows of the
\* source are written in ASCII).
OptionLines(option, i) ==
    <<"\nOption " \o ToString(i) \o ":",
      "  1) " \o option.firstLeg.from \o " -> " \o option.firstLeg.to,
      "     Line: " \o option.firstLeg.line \o ", Duration: "
          \o option.firstLeg.durationFormatted,
      "     Depart: +" \o option.firstLeg.departureFormatted
          \o ", Arrive: +" \o option.firstLeg.arrivalFormatted,
      "  Transfer wait: " \o option.transferWaitFormatted,
      "  2) " \o option.secondLeg.from \o " -> " \o option.secondLeg.to,
      "     Line: " \o option.secondLeg.line \o ", Duration: "
          \o option.secondLeg.durationFormatted,
      "     Depart: +" \o option.secondLeg.departureFormatted,
      "  Total time: " \o option.totalDurationFormatted>>

\* "=" * 60 (line 421).
Rule == "============================================================"

RECURSIVE AllOptionLines(_, _)
AllOptionLines(options, i) ==
    IF i > Len(options) THEN <<>>
    ELSE OptionLines(options[i], i) \o AllOptionLines(options, i + 1)

format_transfer_info(options) ==
    IF options = <<>> THEN ""
    ELSE JoinLines(<<"\nTransfer Options:", Rule>> \o AllOptionLines(options, 1))

-----------------------------------------------------------------------------
(* One request: RoutePlanner.get_route, /api/process, or a direct call *)

\* Lines 212-224 of get_route and 274-288 of process_route_data: the
\* arrival offset of the first listed train.
FirstTrainArrivalSec(rd) == Estimated(rd.trains[1], 0) * 60 + rd.duration * 60

\* route_data["earliestArrival"] after those lines (None: key not set).
EarliestFromTrains(rd, clock_now, path) ==
    IF rd.trains = <<>> THEN None
    ELSE IF path = "process"
    THEN StrfTimeHHMM((clock_now + FirstTrainArrivalSec(rd)) % SecondsPerDay)
    ELSE StrfTime((clock_now + FirstTrainArrivalSec(rd)) % SecondsPerDay)

\* Lines 232-236 of get_route and 299-303 of process_route_data.
EarliestAfterTransfer(current, options) ==
    IF options # <<>> /\ Truthy(options[1].expectedArrival)
    THEN options[1].expectedArrival
    ELSE current

\* One call of MetroClient.get_route_info.
IssueQuery(calls) == calls + 1

InitRequest ==
    /\ pc = "start"
    /\ \E pair \in RequestPairs : origin = pair[1] /\ destination = pair[2]
    /\ station_result = None
    /\ prev_call = NoCall
    /\ route_data = NoRouteData
    /\ transfer_station = None
    /\ first_leg_duration_sec = 0
    /\ first_train_departure_sec = 0
    /\ arrival_at_transfer_sec = 0
    /\ estimated_second_leg_sec = 0
    /\ transfer_route = NoResponse
    /\ transfer_options = <<>>
    /\ upstream_calls = 0
    /\ earliest_arrival = None
    /\ rendered = <<>>
    /\ reqs = [exchange |-> <<>>, frame |-> <<>>]
    /\ InitVisitors

Init ==
    /\ InitRequest
    /\ entry = "get_route"
    /\ now = 12 * 3600

\* What no step of a single request writes.
request_frame ==
    <<origin, destination, station_result, prev_call, entry, reqs, visitor_vars>>

\* MetroClient.format_complete_info, which both handlers call on the response
\* once the options are in it (get_route line 240, main.py 336), raises
\* KeyError in format_trip_info (metro_client.py 85-86) when the trip has no
\* fromStation object or a station object has no "name".  The response is
\* taken to have its "exits" and "co2Metro" parts, and each listed train
\* its estimate and display fields, which the same call reads.
FormatRaises(rd) == rd.fromName \in {None, NoStation} \/ rd.toName = None

\* How the caller of the builder ends: a handler after its formatting, a
\* direct call with the builder's return.
EndOfHandler(path, rd) ==
    IF path # "direct" /\ FormatRaises(rd) THEN "failed" ELSE "done"

\* get_route issues the first upstream query (line 207) and suspends.
GetRouteCall ==
    /\ pc = "start"
    /\ entry = "get_route"
    /\ pc' = "await_first"
    /\ upstream_calls' = IssueQuery(upstream_calls)
    /\ UNCHANGED <<route_data, transfer_station, first_leg_duration_sec,
                   first_train_departure_sec, arrival_at_transfer_sec,
                   estimated_second_leg_sec, transfer_route, transfer_options,
                   earliest_arrival, rendered, now>>
    /\ UNCHANGED request_frame

\* The first query raises: get_route has no handler, the error propagates.
FirstCallFails ==
    /\ pc = "await_first"
    /\ pc' = "failed"
    /\ \E delay \in Delays : now' = ClockAfter(now, delay)
    /\ UNCHANGED <<route_data, transfer_station, first_leg_duration_sec,
                   first_train_departure_sec, arrival_at_transfer_sec,
                   estimated_second_leg_sec, transfer_route, transfer_options,
                   upstream_calls, earliest_arrival, rendered>>
    /\ UNCHANGED request_frame

\* _find_transfer_options on a response whose flag is true: lines 265-298,
\* then the second query is issued (line 302) and the call suspends.
EnterBuilder(rd) ==
    /\ transfer_station' = TransferStationOf(rd, origin, destination)
    /\ first_leg_duration_sec' = FirstLegDurationSec(rd)
    /\ first_train_departure_sec' = FirstTrainDepartureSec(rd)
    /\ arrival_at_transfer_sec' = FirstTrainDepartureSec(rd) + FirstLegDurationSec(rd)
    /\ estimated_second_leg_sec' = EstimatedSecondLegSec(rd)
    /\ pc' = "await_second"
    /\ upstream_calls' = IssueQuery(upstream_calls)
    /\ UNCHANGED <<transfer_route, transfer_options>>

\* No option is built: the handlers skip the call when the flag is false
\* (get_route line 227, process_route_data line 291) and go on to format the
\* response; the builder itself returns its empty list (lines 265-267 and
\* 388).
NoOptions(rd) ==
    /\ pc' = EndOfHandler(entry, rd)
    /\ UNCHANGED <<transfer_station, first_leg_duration_sec,
                   first_train_departure_sec, arrival_at_transfer_sec,
                   estimated_second_leg_sec, transfer_route, transfer_options,
                   upstream_calls>>

\* process_route_data reads trip.fromStation.code itself (main.py 292): a
\* KeyError there ends the handler before the builder is called.
HandlerRaises ==
    /\ pc' = "failed"
    /\ UNCHANGED <<transfer_station, first_leg_duration_sec,
                   first_train_departure_sec, arrival_at_transfer_sec,
                   estimated_second_leg_sec, transfer_route, transfer_options,
                   upstream_calls>>

\* get_route receives a first response whose trip.transfer is false.
FirstResponseDirectFrom(responses) ==
    /\ pc = "await_first"
    /\ \E rd \in responses, delay \in Delays :
        /\ ~rd.transfer
        /\ route_data' = rd
        /\ now' = ClockAfter(now, delay)
        /\ earliest_arrival' = EarliestFromTrains(rd, now', entry)
        /\ NoOptions(rd)
    /\ UNCHANGED rendered
    /\ UNCHANGED request_frame

\* get_route receives a first response whose trip.transfer is true.
FirstResponseTransferFrom(responses) ==
    /\ pc = "await_first"
    /\ \E rd \in responses, delay \in Delays :
        /\ rd.transfer
        /\ route_data' = rd
        /\ now' = ClockAfter(now, delay)
        /\ earliest_arrival' = EarliestFromTrains(rd, now', entry)
        /\ EnterBuilder(rd)
    /\ UNCHANGED rendered
    /\ UNCHANGED request_frame

FirstResponseDirect == FirstResponseDirectFrom(FirstResponses)

FirstResponseTransfer == FirstResponseTransferFrom(FirstResponses)

\* Lines 306-388 on the outcome `resp` of the second query, which took
\* `delay` seconds, and the rest of the caller (get_route 230-249, main.py
\* 297-338).  The clock strings of the option are taken when the builder
\* resumes; the reads of one synchronous stretch are taken to fall in the
\* same second.  A KeyError of the name lookup is outside the try of lines
\* 301-333: it ends the builder and its caller.
FinishOptions(resp, delay) ==
    LET options ==
            <<Option(origin, destination, route_data, ClockAfter(now, delay),
                     transfer_station,
                     first_leg_duration_sec, first_train_departure_sec,
                     arrival_at_transfer_sec,
                     Enrichment(resp, arrival_at_transfer_sec,
                                estimated_second_leg_sec))>>
    IN  /\ transfer_route' = resp
        /\ now' = ClockAfter(now, delay)
        /\ IF NameLookupRaises(route_data)
           THEN /\ pc' = "failed"
                /\ UNCHANGED <<transfer_options, earliest_arrival>>
           ELSE /\ pc' = EndOfHandler(entry, route_data)
                /\ transfer_options' = options
                /\ earliest_arrival' =
                     IF entry = "direct" THEN earliest_arrival
                     ELSE EarliestAfterTransfer(earliest_arrival, options)
        /\ UNCHANGED <<route_data, transfer_station, first_leg_duration_sec,
                       first_train_departure_sec, arrival_at_transfer_sec,
                       estimated_second_leg_sec, upstream_calls, rendered>>
        /\ UNCHANGED request_frame

\* get_route_info returns a decoded payload for the second query.
SecondResponseFrom(responses) ==
    /\ pc = "await_second"
    /\ \E resp \in responses, delay \in Delays : FinishOptions(resp, delay)

SecondResponse == SecondResponseFrom(SecondResponses)

\* get_route_info raises for the second query (timeout, HTTP status, JSON).
SecondCallFails ==
    /\ pc = "await_second"
    /\ \E kind \in FailureKinds, delay \in Delays :
         FinishOptions([NoResponse EXCEPT !.kind = kind], delay)

Next ==
    \/ GetRouteCall
    \/ FirstCallFails
    \/ FirstResponseDirect
    \/ FirstResponseTransfer
    \/ SecondResponse
    \/ SecondCallFails

Spec == Init /\ [][Next]_vars

-----------------------------------------------------------------------------
(* The three calling paths, and rendering of the result *)

InitPaths ==
    /\ InitRequest
    /\ entry \in Entries
    /\ now \in Clocks

\* process_route_data (main.py 271-340) on the payload of the request, up to
\* the builder's await when the flag is true and to its end when it is not.
ProcessRouteData ==
    /\ pc = "start"
    /\ entry = "process"
    /\ \E rd \in PathFirstResponses :
        /\ route_data' = rd
        /\ earliest_arrival' = EarliestFromTrains(rd, now, entry)
        /\ IF ~rd.transfer THEN NoOptions(rd)
           ELSE IF NameLookupRaises(rd) THEN HandlerRaises
           ELSE EnterBuilder(rd)
    /\ UNCHANGED <<rendered, now>>
    /\ UNCHANGED request_frame

\* _find_transfer_options called with a response of the caller's choice.
DirectCall ==
    /\ pc = "start"
    /\ entry = "direct"
    /\ \E rd \in PathFirstResponses :
        /\ route_data' = rd
        /\ IF rd.transfer THEN EnterBuilder(rd) ELSE NoOptions(rd)
    /\ UNCHANGED <<earliest_arrival, rendered, now>>
    /\ UNCHANGED request_frame

PathFirstResponseDirect == FirstResponseDirectFrom(PathFirstResponses)

PathFirstResponseTransfer == FirstResponseTransferFrom(PathFirstResponses)

PathSecondResponse == SecondResponseFrom(PathSecondResponses)

\* format_transfer_info(transfer_options) on a finished result
\* (main.py 219-224 renders it when there are options).
Render ==
    /\ pc = "done"
    /\ transfer_options # <<>>
    /\ Len(rendered) < MaxRenders
    /\ rendered' = Append(rendered, format_transfer_info(transfer_options))
    /\ UNCHANGED <<pc, route_data, transfer_options, transfer_station,
                   first_leg_duration_sec,
                   first_train_departure_sec, arrival_at_transfer_sec,
                   estimated_second_leg_sec, transfer_route, upstream_calls,
                   earliest_arrival, now>>
    /\ UNCHANGED request_frame

NextPaths ==
    \/ GetRouteCall
    \/ FirstCallFails
    \/ PathFirstResponseDirect
    \/ PathFirstResponseTransfer
    \/ ProcessRouteData
    \/ DirectCall
    \/ PathSecondResponse
    \/ SecondCallFails
    \/ Render

SpecPaths == InitPaths /\ [][NextPaths]_vars

-----------------------------------------------------------------------------
(* get_route over every total trip duration *)

SplitFirstResponseDirect == FirstResponseDirectFrom(SplitFirstResponses)

SplitFirstResponseTransfer == FirstResponseTransferFrom(SplitFirstResponses)

NextSplit ==
    \/ GetRouteCall
    \/ FirstCallFails
    \/ SplitFirstResponseDirect
    \/ SplitFirstResponseTransfer
    \/ PathSecondResponse
    \/ SecondCallFails

SpecSplit == Init /\ [][NextSplit]_vars

\* Every upstream call returns or raises (the client's timeout is 30 s), and
\* the handler then runs to its next await or to its end.
FairSpecSplit == SpecSplit /\ WF_vars(NextSplit)

-----------------------------------------------------------------------------
(* Two get_route requests in flight on the one RoutePlanner instance *)

Requests == {1, 2}

ConcPairs == {<<"PLE", "KAB">>, <<UnknownCode, "PLE">>}

ConcFirstResponses ==
    {rd \in PathFirstResponses :
        /\ rd.transferStation = None
        /\ rd.trains # <<0, 8>>
        /\ rd.secondLine = None
        /\ rd.fromName # NoStation
        /\ rd.toName # None
        /\ rd.transferName = None}

ConcSecondResponses ==
    {resp \in PathSecondResponses : resp.trains \in {<<>>, <<5, 9, 14>>}}
    \cup {[NoResponse EXCEPT !.kind = "timeout"]}

\* The arguments and local variables of one call of get_route and of the
\* _find_transfer_options call inside it.
NoFrame ==
    [origin |-> None, destination |-> None, route_data |-> NoRouteData,
     transfer_station |-> None, first_leg_duration_sec |-> 0,
     first_train_departure_sec |-> 0, arrival_at_transfer_sec |-> 0,
     estimated_second_leg_sec |-> 0]

\* What a request asked, received and returned, as its client sees it, and
\* the time of day at which its builder resumed from the second query.
NoExchange ==
    [pc |-> "start", origin |-> None, destination |-> None,
     first |-> NoRouteData, second |-> NoResponse, options |-> <<>>,
     resumed |-> 0, overlapped |-> FALSE]

\* One frame for all calls.
SharedLocalsSlot(r) == 1

\* Each call of a coroutine function has its own frame.
LocalsSlot(r) == r

InitConc ==
    /\ pc = "start"
    /\ origin = None
    /\ destination = None
    /\ station_result = None
    /\ prev_call = NoCall
    /\ route_data = NoRouteData
    /\ transfer_station = None
    /\ first_leg_duration_sec = 0
    /\ first_train_departure_sec = 0
    /\ arrival_at_transfer_sec = 0
    /\ estimated_second_leg_sec = 0
    /\ transfer_route = NoResponse
    /\ transfer_options = <<>>
    /\ upstream_calls = 0
    /\ earliest_arrival = None
    /\ rendered = <<>>
    /\ entry = "get_route"
    /\ now = 12 * 3600
    /\ InitVisitors
    /\ \E p1 \in ConcPairs, p2 \in ConcPairs :
         reqs = [exchange |->
                    [r \in Requests |->
                        [NoExchange EXCEPT !.origin = IF r = 1 THEN p1[1] ELSE p2[1],
                                           !.destination = IF r = 1 THEN p1[2] ELSE p2[2]]],
                 frame |-> [r \in Requests |-> NoFrame]]

\* The other request is suspended at one of its two awaits.
OtherSuspended(r) ==
    \E q \in Requests \ {r} : reqs.exchange[q].pc \in {"await_first", "await_second"}

single_request_vars ==
    <<pc, origin, destination, station_result, prev_call, route_data,
      transfer_station, first_leg_duration_sec, first_train_departure_sec,
      arrival_at_transfer_sec, estimated_second_leg_sec, transfer_route,
      transfer_options, upstream_calls, entry, earliest_arrival, rendered,
      visitor_vars>>

\* Request r enters get_route and suspends at the first query (line 207).
ConcGetRouteCall(r) ==
    /\ reqs.exchange[r].pc = "start"
    /\ reqs' = [reqs EXCEPT
                  !.exchange[r].pc = "await_first",
                  !.exchange[r].overlapped = @ \/ OtherSuspended(r),
                  !.frame[LocalsSlot(r)].origin = reqs.exchange[r].origin,
                  !.frame[LocalsSlot(r)].destination = reqs.exchange[r].destination]
    /\ UNCHANGED now
    /\ UNCHANGED single_request_vars

\* The first query of request r raises.
ConcFirstCallFails(r) ==
    /\ reqs.exchange[r].pc = "await_first"
    /\ reqs' = [reqs EXCEPT !.exchange[r].pc = "failed",
                            !.exchange[r].overlapped = @ \/ OtherSuspended(r)]
    /\ \E delay \in Delays : now' = ClockAfter(now, delay)
    /\ UNCHANGED single_request_vars

\* Request r resumes with its first response: get_route lines 207-230 and,
\* when the flag is true, the builder up to its await at line 302; when it
\* is false, the rest of get_route.
ConcFirstResponse(r) ==
    /\ reqs.exchange[r].pc = "await_first"
    /\ \E delay \in Delays : now' = ClockAfter(now, delay)
    /\ \E rd \in ConcFirstResponses :
         LET slot == LocalsSlot(r)
             o == reqs.frame[slot].origin
             d == reqs.frame[slot].destination
         IN  reqs' =
               IF rd.transfer
               THEN [reqs EXCEPT
                       !.exchange[r].pc = "await_second",
                       !.exchange[r].first = rd,
                       !.exchange[r].overlapped = @ \/ OtherSuspended(r),
                       !.frame[slot].route_data = rd,
                       !.frame[slot].transfer_station = TransferStationOf(rd, o, d),
                       !.frame[slot].first_leg_duration_sec = FirstLegDurationSec(rd),
                       !.frame[slot].first_train_departure_sec =
                            FirstTrainDepartureSec(rd),
                       !.frame[slot].arrival_at_transfer_sec =
                            FirstTrainDepartureSec(rd) + FirstLegDurationSec(rd),
                       !.frame[slot].estimated_second_leg_sec =
                            EstimatedSecondLegSec(rd)]
               ELSE [reqs EXCEPT
                       !.exchange[r].pc = EndOfHandler("get_route", rd),
                       !.exchange[r].first = rd,
                       !.exchange[r].overlapped = @ \/ OtherSuspended(r),
                       !.frame[slot].route_data = rd]
    /\ UNCHANGED single_request_vars

\* Request r resumes with the outcome of its second query, builds its
\* option and runs the rest of get_route.
ConcSecondResponse(r) ==
    /\ reqs.exchange[r].pc = "await_second"
    /\ \E delay \in Delays : now' = ClockAfter(now, delay)
    /\ \E resp \in ConcSecondResponses :
         LET f == reqs.frame[LocalsSlot(r)]
         IN  reqs' =
               [reqs EXCEPT
                  !.exchange[r].pc = EndOfHandler("get_route", f.route_data),
                  !.exchange[r].second = resp,
                  !.exchange[r].resumed = now',
                  !.exchange[r].overlapped = @ \/ OtherSuspended(r),
                  !.exchange[r].options =
                     <<Option(f.origin, f.destination, f.route_data, now',
                              f.transfer_station, f.first_leg_duration_sec,
                              f.first_train_departure_sec,
                              f.arrival_at_transfer_sec,
                              Enrichment(resp, f.arrival_at_transfer_sec,
                                         f.estimated_second_leg_sec))>>]
    /\ UNCHANGED single_request_vars

NextConcurrent ==
    \/ \E r \in Requests : ConcGetRouteCall(r)
    \/ \E r \in Requests : ConcFirstCallFails(r)
    \/ \E r \in Requests : ConcFirstResponse(r)
    \/ \E r \in Requests : ConcSecondResponse(r)

SpecConcurrent == InitConc /\ [][NextConcurrent]_vars

-----------------------------------------------------------------------------
(* track_visitor calls, day changes, saves and reloads *)

other_vars ==
    <<pc, origin, destination, station_result, prev_call, route_data,
      transfer_station, first_leg_duration_sec, first_train_departure_sec,
      arrival_at_transfer_sec, estimated_second_leg_sec, transfer_route,
      transfer_options, upstream_calls, entry, now, earliest_arrival, rendered,
      reqs>>

\* track_visitor(request) for a request of visitor `id` (lines 118-143), in
\* an application that started: the reset when the date has changed, with
\* its save (line 130); the lookup, which raises KeyError when visitor_data
\* has no "visitors" (line 138); the addition, with its save (line 143).
TrackVisitor ==
    /\ Serving(visitor_data)
    /\ \E id \in VisitorIds :
        LET due == visitor_data.date # current_date
            reset == AfterReset(visitor_data, current_date)
            raises == "visitors" \notin reset.keys
            after == IF raises THEN reset ELSE AfterVisit(reset, id)
        IN  /\ visitor_data' = after
            /\ \E first \in (IF due THEN SaveOutcomes(reset, data_file)
                              ELSE {data_file}) :
                 data_file' \in (IF after # reset THEN SaveOutcomes(after, first)
                                 ELSE {first})
            /\ tracked' = IF raises THEN tracked
                          ELSE [tracked EXCEPT ![current_date] = @ \cup {id}]
            /\ last_track' =
                 [kind |-> IF raises THEN "raised" ELSE "track", id |-> id,
                  repeat |-> id \in tracked[current_date],
                  new_date |-> due,
                  count_before |-> visitor_data.count]
            /\ UNCHANGED <<current_date, restarts>>
            /\ UNCHANGED other_vars

\* Midnight passes.
DayChange ==
    /\ current_date < MaxDay
    /\ current_date' = current_date + 1
    /\ UNCHANGED <<visitor_data, data_file, tracked, last_track, restarts>>
    /\ UNCHANGED other_vars

\* save_visitor_data() at shutdown (line 76), which the lifespan reaches
\* only if its startup succeeded.
SaveVisitorData ==
    /\ Serving(visitor_data)
    /\ data_file' \in SaveOutcomes(visitor_data, data_file)
    /\ UNCHANGED <<visitor_data, current_date, tracked, last_track, restarts>>
    /\ UNCHANGED other_vars

\* The process starts again: line 102, then load_visitor_data() (line 69).
ReloadVisitorData ==
    /\ restarts < MaxRestarts
    /\ restarts' = restarts + 1
    /\ visitor_data' = load_visitor_data(data_file, current_date)
    /\ last_track' = NoTrack
    /\ UNCHANGED <<data_file, current_date, tracked>>
    /\ UNCHANGED other_vars

\* Someone else puts a file at DATA_FILE (line 27).
ReplaceFile ==
    /\ data_file' \in ForeignFiles \ {data_file}
    /\ UNCHANGED <<visitor_data, current_date, tracked, last_track, restarts>>
    /\ UNCHANGED other_vars

NextVisitors ==
    \/ TrackVisitor
    \/ DayChange
    \/ SaveVisitorData
    \/ ReloadVisitorData
    \/ ReplaceFile

SpecVisitors == Init /\ [][NextVisitors]_vars

-----------------------------------------------------------------------------
(* Calls of RoutePlanner._find_transfer_station over the whole network *)

\* What the tables say about a pair of codes.
CaseOf(o, d) ==
    IF (\A line \in Lines : o \notin StationsOf(line))
       \/ (\A line \in Lines : d \notin StationsOf(line))
    THEN "undetermined"
    ELSE IF \E line \in Lines : o \in StationsOf(line) /\ d \in StationsOf(line)
    THEN "same_line"
    ELSE "different_lines"

InitResolver ==
    /\ pc = "resolver_call"
    /\ origin \in StationCodes
    /\ destination \in StationCodes
    /\ station_result = None
    /\ prev_call = NoCall
    /\ route_data = NoRouteData
    /\ transfer_station = None
    /\ first_leg_duration_sec = 0
    /\ first_train_departure_sec = 0
    /\ arrival_at_transfer_sec = 0
    /\ estimated_second_leg_sec = 0
    /\ transfer_route = NoResponse
    /\ transfer_options = <<>>
    /\ upstream_calls = 0
    /\ entry = "direct"
    /\ now = 12 * 3600
    /\ earliest_arrival = None
    /\ rendered = <<>>
    /\ reqs = [exchange |-> <<>>, frame |-> <<>>]
    /\ InitVisitors

\* _find_transfer_station(origin, destination) runs and returns.
FindTransferStation ==
    /\ pc = "resolver_call"
    /\ station_result' = _find_transfer_station(origin, destination)
    /\ pc' = "resolver_returned"
    /\ UNCHANGED <<origin, destination, prev_call, route_data, transfer_station,
                   first_leg_duration_sec, first_train_departure_sec,
                   arrival_at_transfer_sec, estimated_second_leg_sec,
                   transfer_route, transfer_options, upstream_calls, entry, now,
                   earliest_arrival, rendered, reqs, visitor_vars>>

\* The caller keeps what it saw and makes its next call.
NextResolverCall ==
    /\ pc = "resolver_returned"
    /\ prev_call' = [kind |-> CaseOf(origin, destination), result |-> station_result]
    /\ origin' \in StationCodes
    /\ destination' \in StationCodes
    /\ pc' = "resolver_call"
    /\ UNCHANGED <<station_result, route_data, transfer_station,
                   first_leg_duration_sec, first_train_departure_sec,
                   arrival_at_transfer_sec, estimated_second_leg_sec,
                   transfer_route, transfer_options, upstream_calls, entry, now,
                   earliest_arrival, rendered, reqs, visitor_vars>>

NextResolver ==
    \/ FindTransferStation
    \/ NextResolverCall

SpecResolver == InitResolver /\ [][NextResolver]_vars

-----------------------------------------------------------------------------
(* Properties of the transfer option (checked under Spec) *)

Returned == pc = "done" /\ Len(transfer_options) = 1

\* The payload of the second query makes the enrichment block raise: an
\* entry with a null estimate is met before any train qualifies, or trains
\* are listed and the payload has no trip.
RaisesInBlock(resp, arrival) ==
    /\ resp.kind = "ok"
    /\ resp.trains # <<>>
    /\ \/ ~resp.hasTrip
       \/ \E i \in 1..Len(resp.trains) :
            /\ resp.trains[i] = BadEst
            /\ \A j \in 1..(i - 1) :
                 /\ resp.trains[j] # BadEst
                 /\ Estimated(resp.trains[j], 0) * 60 < arrival

\* Indices of the listed trains that depart at or after the arrival.
Qualifying(trains, arrival) ==
    {i \in 1..Len(trains) : trains[i] >= 0 /\ trains[i] * 60 >= arrival}

MinOf(S) == CHOOSE i \in S : \A j \in S : i <= j

\* C1: every returned option has totalDuration equal to firstLeg.duration +
\* transferWait + secondLeg.duration, whichever branch set the wait and the
\* second-leg duration.
C1_AdditiveTotal ==
    \A i \in 1..Len(transfer_options) :
        transfer_options[i].totalDuration =
            transfer_options[i].firstLeg.duration
            + transfer_options[i].transferWait
            + transfer_options[i].secondLeg.duration

\* C1 witness: an option built from live data, with a wait above the floor
\* and a second leg that differs from the step-2 estimate.
C1_Witness ==
    /\ Returned
    /\ transfer_route.kind = "ok"
    /\ transfer_options[1].transferWait > FLOOR
    /\ transfer_options[1].secondLeg.duration # estimated_second_leg_sec
    /\ transfer_options[1].firstLeg.duration > 0

\* C2: every returned option has transferWait >= FLOOR (30 seconds).
C2_WaitFloor ==
    \A i \in 1..Len(transfer_options) : transfer_options[i].transferWait >= FLOOR

\* C2 witness: the second query succeeded and every listed train departs
\* before the arrival at the transfer station, the first one at offset 0.
C2_Witness ==
    /\ Returned
    /\ transfer_route.kind = "ok"
    /\ transfer_route.hasTrip
    /\ transfer_route.trains # <<>>
    /\ \A i \in 1..Len(transfer_route.trains) :
         /\ transfer_route.trains[i] >= 0
         /\ transfer_route.trains[i] * 60 < arrival_at_transfer_sec
    /\ transfer_route.trains[1] = 0
    /\ transfer_options[1].transferWait = FLOOR

\* C3: when the second query fails (get_route_info raises, or the payload
\* raises inside the enrichment block) the builder still returns exactly one
\* option, with the floor wait and the step-2 estimate (T - T div 2 minutes)
\* as second-leg duration.
C3_GracefulDegradation ==
    (/\ pc = "done"
     /\ route_data.transfer
     /\ \/ transfer_route.kind \in FailureKinds
        \/ RaisesInBlock(transfer_route, arrival_at_transfer_sec))
    => /\ Len(transfer_options) = 1
       /\ transfer_options[1].transferWait = FLOOR
       /\ transfer_options[1].secondLeg.duration =
            (route_data.duration - (route_data.duration \div 2)) * 60

\* C3 witness: the payload lists a train that sets a wait above the floor
\* and then has no trip, so the block raises after the wait was set.
C3_Witness ==
    /\ Returned
    /\ transfer_route.kind = "ok"
    /\ ~transfer_route.hasTrip
    /\ Qualifying(transfer_route.trains, arrival_at_transfer_sec) # {}
    /\ LET k == MinOf(Qualifying(transfer_route.trains, arrival_at_transfer_sec))
       IN  /\ \A j \in 1..k : transfer_route.trains[j] >= 0
           /\ transfer_route.trains[k] * 60 - arrival_at_transfer_sec > FLOOR
    /\ route_data.duration = 11
    /\ transfer_options[1].transferWait = FLOOR

\* C8: when the second query succeeds with a non-empty train list whose
\* entries carry their estimate, the wait is max(FLOOR, departure - arrival)
\* of the first listed train departing at or after the arrival, and
\* max(FLOOR, departure of the first listed train) when none does.
C8_FirstQualifyingTrain ==
    (/\ Returned
     /\ transfer_route.kind = "ok"
     /\ transfer_route.trains # <<>>
     /\ ~RaisesInBlock(transfer_route, arrival_at_transfer_sec)
     /\ \A i \in 1..Len(transfer_route.trains) : transfer_route.trains[i] # NoEst)
    => LET trains == transfer_route.trains
           q == Qualifying(trains, arrival_at_transfer_sec)
       IN  IF q # {}
           THEN transfer_options[1].transferWait =
                    Max(FLOOR, trains[MinOf(q)] * 60 - arrival_at_transfer_sec)
           ELSE transfer_options[1].transferWait = Max(FLOOR, trains[1] * 60)

\* C8 witness: two listed trains qualify, with different waits above the
\* floor, after one that departs too early; the earlier of the two is used.
C8_Witness ==
    /\ Returned
    /\ transfer_route.kind = "ok"
    /\ transfer_route.hasTrip
    /\ transfer_route.trains = <<5, 9, 14>>
    /\ arrival_at_transfer_sec = 480
    /\ transfer_options[1].transferWait = 60

\* C9: whenever the second query succeeds with a trip duration, the option's
\* secondLeg.duration is that live duration in seconds, for every train
\* list, an empty one included.
C9_LiveSecondLegDuration ==
    (/\ Returned
     /\ transfer_route.kind = "ok"
     /\ transfer_route.hasTrip
     /\ transfer_route.duration # NoDur
     /\ ~RaisesInBlock(transfer_route, arrival_at_transfer_sec))
    => transfer_options[1].secondLeg.duration = transfer_route.duration * 60

\* C10: total 20 minutes, soonest train in 3 minutes, second-leg trains at
\* 5, 9 and 14 minutes with trip duration 11: first leg 600 s, arrival
\* 780 s, the 14-minute train is selected, wait 60 s, second leg 660 s,
\* total 1320 s.
C10_EndToEndExample ==
    (/\ pc = "done"
     /\ route_data.transfer
     /\ route_data.duration = 20
     /\ route_data.trains = <<3>>
     /\ transfer_route = [kind |-> "ok", trains |-> <<5, 9, 14>>,
                          hasTrip |-> TRUE, duration |-> 11])
    => /\ Len(transfer_options) = 1
       /\ transfer_options[1].firstLeg.duration = 600
       /\ transfer_options[1].firstLeg.arrival = 780
       /\ MinOf(Qualifying(transfer_route.trains,
                           transfer_options[1].firstLeg.arrival)) = 3
       /\ transfer_options[1].transferWait = 60
       /\ transfer_options[1].secondLeg.duration = 660
       /\ transfer_options[1].totalDuration = 1320

\* C10 witness: the request of the example has been answered.
C10_Witness ==
    /\ Returned
    /\ route_data.transfer
    /\ route_data.duration = 20
    /\ route_data.trains = <<3>>
    /\ transfer_route = [kind |-> "ok", trains |-> <<5, 9, 14>>,
                         hasTrip |-> TRUE, duration |-> 11]
    /\ transfer_options[1].totalDuration = 1320

\* The hint of the first response is usable: non-empty and not "Unknown".
UsableHint == Truthy(route_data.transferStation) /\ route_data.transferStation # Unknown

\* C11: in a returned option the transfer station is the first response's
\* hint when that hint is non-empty and not "Unknown", whatever the resolver
\* says; otherwise it is the resolver's answer; and when the resolver has none
\* either, it is "Unknown" in firstLeg.to, secondLeg.from and both names.  A
\* request whose first response asks for a transfer ends with one option.
C11_ResolutionOrder ==
    /\ (pc = "done" /\ route_data.kind = "ok" /\ route_data.transfer) => Returned
    /\ Returned =>
        LET option == transfer_options[1]
            found == _find_transfer_station(origin, destination)
        IN  /\ option.firstLeg.to = option.secondLeg.from
            /\ option.firstLeg.toName = option.secondLeg.fromName
            /\ UsableHint => option.firstLeg.to = route_data.transferStation
            /\ (~UsableHint /\ Truthy(found)) => option.firstLeg.to = found
            /\ (~UsableHint /\ ~Truthy(found)) =>
                 /\ option.firstLeg.to = Unknown
                 /\ option.firstLeg.toName = Unknown

\* C11 witness: an option returned for a request whose hint is the text
\* "Unknown" and whose origin is on no line, so that the sentinel is used.
C11_Witness ==
    /\ Returned
    /\ route_data.transferStation = Unknown
    /\ _find_transfer_station(origin, destination) = None
    /\ transfer_options[1].firstLeg.to = Unknown
    /\ transfer_options[1].secondLeg.fromName = Unknown

\* C12: for every total trip duration T in minutes, the first leg is
\* estimated at (T div 2) * 60 seconds and the second leg at
\* (T - T div 2) * 60 seconds, so that the two estimates add up to T * 60
\* until live data overwrites the second one; an option built after the
\* second query raised still carries both estimates.
C12_StepTwoSplit ==
    LET T == route_data.duration
    IN  /\ pc \in {"await_second", "done"} /\ route_data.transfer =>
             /\ first_leg_duration_sec = (T \div 2) * 60
             /\ estimated_second_leg_sec = (T - (T \div 2)) * 60
             /\ first_leg_duration_sec + estimated_second_leg_sec = T * 60
             /\ T % 2 = 1 => estimated_second_leg_sec = first_leg_duration_sec + 60
        /\ (Returned /\ transfer_route.kind # "ok") =>
             transfer_options[1].firstLeg.duration
             + transfer_options[1].secondLeg.duration = T * 60

\* C12 witness: a transfer response with an odd total duration has been
\* split, and the second leg holds the extra minute.
C12_Witness ==
    /\ pc = "await_second"
    /\ route_data.duration = 7
    /\ first_leg_duration_sec = 180
    /\ estimated_second_leg_sec = 240

\* The second query has been issued only on a first response that asks for
\* a transfer, with the arrival offset at the transfer station computed from
\* that response; a finished request has made one query, or two when the
\* response asked for a transfer.
CallsInOrder ==
    /\ upstream_calls <= 2
    /\ upstream_calls = 2 =>
         /\ pc \in {"await_second", "done"}
         /\ route_data.kind = "ok"
         /\ route_data.transfer
         /\ arrival_at_transfer_sec =
              Estimated(IF route_data.trains = <<>> THEN NoEst
                        ELSE route_data.trains[1], 0) * 60
              + (route_data.duration \div 2) * 60
    /\ pc = "await_second" => upstream_calls = 2 /\ transfer_route = NoResponse
    /\ pc = "failed" => upstream_calls = 1 /\ route_data = NoRouteData
    /\ pc = "done" =>
         /\ upstream_calls = IF route_data.transfer THEN 2 ELSE 1
         /\ Len(transfer_options) = IF route_data.transfer THEN 1 ELSE 0

\* C14 (checked under FairSpecSplit): within one get_route request the second query is issued only after
\* the first response and the arrival offset computed from it, once when the
\* transfer flag is true and never when it is false; no step issues more
\* than one query and none is issued after the result (no retry), so at most
\* two are made; and the request always ends, with a result or with the
\* error of the first query.
C14_CallOrderAndCount ==
    /\ []CallsInOrder
    /\ [][/\ upstream_calls' \in {upstream_calls, upstream_calls + 1}
          /\ pc \in {"done", "failed"} => upstream_calls' = upstream_calls]_vars
    /\ <>(pc \in {"done", "failed"})

\* C19: in every returned option the first leg arrives at its departure
\* plus its duration, the second leg departs at that arrival plus the
\* transfer wait, and totalDuration, the offset from now that gives
\* expectedArrival, is not before the second leg's departure plus its
\* duration.
C19_TimelineCoherent ==
    \A i \in 1..Len(transfer_options) :
        LET option == transfer_options[i]
        IN  /\ option.firstLeg.arrival =
                 option.firstLeg.departure + option.firstLeg.duration
            /\ option.secondLeg.departure =
                 option.firstLeg.arrival + option.transferWait
            /\ option.totalDuration >=
                 option.secondLeg.departure + option.secondLeg.duration
            /\ option.expectedArrival =
                 _calculate_arrival_time(now, option.totalDuration)

-----------------------------------------------------------------------------
(* Properties of the calling paths (checked under SpecPaths) *)

\* _find_transfer_options has been called with the first response: always
\* on a direct call, and by the two handlers only when the flag is true.
\* process_route_data reads trip["fromStation"]["code"] first (main.py 292)
\* and raises, without calling, when the trip has no such object.
BuilderCalled ==
    /\ route_data.kind = "ok"
    /\ entry = "direct" \/ route_data.transfer
    /\ ~(entry = "process" /\ NameLookupRaises(route_data))

\* C13: a call of the builder with a first response whose transfer flag is
\* not true never ends as a normal return; it ends in an error.
C13_PreconditionFailsLoudly ==
    (BuilderCalled /\ ~route_data.transfer) => pc # "done"

\* The name the claimed preference gives a station: the embedded name if
\* the response has one, else the table's, else the identifier.
PreferredName(embedded, code) ==
    IF embedded # None /\ embedded # NoStation THEN embedded
    ELSE StationNameOrCode(code)

\* The builder was entered and ended in an error: the second query was
\* answered and no option came back.
BuilderFailed ==
    /\ pc = "failed"
    /\ Truthy(transfer_station)
    /\ transfer_route # NoResponse
    /\ transfer_options = <<>>

\* C17: in a returned option the names of the origin, of the transfer
\* station and of the destination are each the name embedded in the first
\* response when there is one, else the STATION_NAMES entry, else the
\* identifier; and the builder never ends in an error for want of a name.
C17_ThreeLevelNames ==
    /\ ~BuilderFailed
    /\ Returned =>
        LET option == transfer_options[1]
        IN  /\ option.firstLeg.fromName = PreferredName(route_data.fromName, origin)
            /\ option.firstLeg.toName =
                    PreferredName(route_data.transferName, option.firstLeg.to)
            /\ option.secondLeg.fromName =
                    PreferredName(route_data.transferName, option.secondLeg.from)
            /\ option.secondLeg.toName =
                    PreferredName(route_data.toName, destination)

\* C18: after get_route or /api/process on a transfer response that lists
\* a train, earliestArrival is the option's expectedArrival when the option
\* arrives earlier than the first listed train, and otherwise still the
\* first train's arrival.  The first train's arrival was taken when the
\* first response was read and the option's when the second query was
\* answered, some `delay` seconds later.
C18_EarliestOnlyIfFaster ==
    (Returned /\ entry # "direct" /\ route_data.trains # <<>>) =>
        \E delay \in Delays :
            earliest_arrival =
                IF delay + transfer_options[1].totalDuration
                       < FirstTrainArrivalSec(route_data)
                THEN transfer_options[1].expectedArrival
                ELSE EarliestFromTrains(route_data, ClockAfter(now, 0 - delay), entry)

-----------------------------------------------------------------------------
(* Properties of two requests in flight (checked under SpecConcurrent) *)

\* The options of a request handled alone: what EnterBuilder and
\* FinishOptions compute from its own stations and its own two responses,
\* the second of them received at time of day `clock`.
SoloOptions(o, d, rd, resp, clock) ==
    IF ~rd.transfer THEN <<>>
    ELSE LET arrival == FirstTrainDepartureSec(rd) + FirstLegDurationSec(rd)
         IN  <<Option(o, d, rd, clock, TransferStationOf(rd, o, d),
                      FirstLegDurationSec(rd), FirstTrainDepartureSec(rd), arrival,
                      Enrichment(resp, arrival, EstimatedSecondLegSec(rd)))>>

\* C15: whatever the interleaving of two requests at their awaits, the
\* options a finished request returns are those of the same request handled
\* alone with the stations it asked for and the responses it received, at
\* the time it received them.
C15_RequestsIndependent ==
    \A r \in DOMAIN reqs.exchange :
        LET x == reqs.exchange[r]
        IN  x.pc = "done" =>
                x.options = SoloOptions(x.origin, x.destination, x.first, x.second,
                                        x.resumed)

\* C15 witness: both requests have returned an option, each ran while the
\* other was suspended, and they asked for different stations and got
\* different first and second responses.
C15_Witness ==
    /\ \A r \in Requests :
         /\ reqs.exchange[r].pc = "done"
         /\ reqs.exchange[r].overlapped
         /\ Len(reqs.exchange[r].options) = 1
    /\ reqs.exchange[1].origin # reqs.exchange[2].origin
    /\ reqs.exchange[1].first # reqs.exchange[2].first
    /\ reqs.exchange[1].second # reqs.exchange[2].second
    /\ reqs.exchange[1].options # reqs.exchange[2].options

-----------------------------------------------------------------------------
(* Properties of the resolver (checked under SpecResolver) *)

ResolverReturned == pc = "resolver_returned"

\* Key of TRANSFER_STATIONS for an unordered pair of different lines.
TransferKey(x, y) ==
    CASE {x, y} = {"L1", "L2"} -> "L1-L2"
      [] {x, y} = {"L1", "L3"} -> "L1-L3"
      [] {x, y} = {"L2", "L3"} -> "L2-L3"

\* C4: for every pair of stations that both appear in the sequence of one
\* same line, the resolver returns none.
C4_SameLineGivesNone ==
    (ResolverReturned /\ CaseOf(origin, destination) = "same_line")
    => station_result = None

\* C5 as stated: for every pair drawn from two different lines the resolver
\* returns the interchange TRANSFER_STATIONS designates for that line pair,
\* whichever way round the arguments are given.
C5_DifferentLinesAsStated ==
    ResolverReturned =>
        \A x, y \in Lines :
            (x # y /\ origin \in StationsOf(x) /\ destination \in StationsOf(y))
            => /\ station_result = TRANSFER_STATIONS[TransferKey(x, y)]
               /\ _find_transfer_station(destination, origin) = station_result

\* C5 amended: the same, for every pair of stations that lie on two different
\* lines and have no line in common.
C5_DisjointLinesInterchange ==
    (ResolverReturned /\ CaseOf(origin, destination) = "different_lines") =>
        \A x, y \in Lines :
            (x # y /\ origin \in StationsOf(x) /\ destination \in StationsOf(y))
            => /\ station_result = TRANSFER_STATIONS[TransferKey(x, y)]
               /\ _find_transfer_station(destination, origin) = station_result

\* C5 witness: a station of both L1 and L2 with a station of L3 only.
C5_Witness ==
    /\ ResolverReturned
    /\ origin = "MOY"
    /\ destination = "MAT"
    /\ CaseOf(origin, destination) = "different_lines"
    /\ station_result = "CAD"

\* C6: a station returned by the resolver is in the sequence of the line
\* determined for the origin and in that of the line determined for the
\* destination.
C6_TransferStationOnBothLines ==
    (ResolverReturned /\ station_result # None)
    => /\ station_result \in StationsOf(LineOfStation(origin))
       /\ station_result \in StationsOf(LineOfStation(destination))

\* C7: the value returned for a pair with a station on no known line differs
\* from the value returned for a pair on the same line.
C7_UndeterminedDistinctFromNone ==
    (/\ ResolverReturned
     /\ CaseOf(origin, destination) = "undetermined"
     /\ prev_call.kind = "same_line")
    => station_result # prev_call.result

\* C20: for every pair of stations of METRO_NETWORK, a station returned by
\* the resolver is neither the origin nor the destination.
C20_TransferStationIsThird ==
    (/\ ResolverReturned
     /\ \E line \in Lines : origin \in StationsOf(line)
     /\ \E line \in Lines : destination \in StationsOf(line)
     /\ station_result # None)
    => station_result \notin {origin, destination}

-----------------------------------------------------------------------------
(* Properties of the visitor counter (checked under SpecVisitors) *)

\* C21: after any sequence of track_visitor calls, day changes, saves and
\* reloads, visitor_data.count is the number of distinct visitor ids that
\* track_visitor was called with on the date visitor_data carries, and those
\* ids are the set it holds; a call with an id already seen that day leaves
\* count as it was, and the first call on a new date leaves count at 1 with
\* that id alone in the set.
C21_VisitorCount ==
    /\ visitor_data.keys = AllKeys =>
         /\ visitor_data.count = Cardinality(tracked[visitor_data.date])
         /\ visitor_data.visitors = tracked[visitor_data.date]
    /\ last_track.kind = "track" =>
         /\ visitor_data.date = current_date =>
                visitor_data.count = Cardinality(tracked[current_date])
         /\ last_track.repeat => visitor_data.count = last_track.count_before
         /\ last_track.new_date =>
                /\ visitor_data.count = 1
                /\ visitor_data.visitors = {last_track.id}

====
